---- MODULE Spec2Model ----
(***************************************************************************)
(* The request-to-result pipeline of the image intensity service           *)
(* (src/src/main.rs): the handler calculate_intensity walks the parts of a *)
(* multipart body, hands the bytes of the first part named "image" to      *)
(* calculate_image_intensity, and maps the outcome to an HTTP status.      *)
(*                                                                         *)
(* Every request owns its own copy of the handler's locals; the variables  *)
(* below are functions from the requests in flight to those locals.        *)
(***************************************************************************)
EXTENDS Integers, Sequences, FiniteSets, TLC

VARIABLES
    pc,               \* position of each handler: next_field, bytes, calc, loop, done
    body,             \* the multipart body of each request (its parts, in order)
    idx,              \* how many parts next_field() has already yielded, plus one
    data,             \* `data`: the bytes read from the image part (line 60)
    rgb_img,          \* `rgb_img`: the decoded RGB8 buffer (line 79)
    it,               \* position of the iterator rgb_img.pixels() (line 84)
    total_intensity,  \* line 81
    pixel_count,      \* line 82
    result,           \* what calculate_image_intensity returned (<<>>: not yet)
    response,         \* what the handler returned (status 0: not yet)
    decoded           \* the buffers handed to image::load_from_memory so far

vars == <<pc, body, idx, data, rgb_img, it, total_intensity, pixel_count,
          result, response, decoded>>

----------------------------------------------------------------------------
(* Bounds of the model. *)

MaxPixels == 3
MaxDim == 3
MaxParts == 2
NReq == 3

----------------------------------------------------------------------------
(* Program constants. *)

OK == 200
BAD_REQUEST == 400
UNPROCESSABLE_ENTITY == 422
MaxChannel == 255

----------------------------------------------------------------------------
(* u64 arithmetic. TLC's integers are 32-bit, so 2^64 is never written     *)
(* down: a value is shifted right by 64 bits in four steps of 16, and the  *)
(* wrapped part is only computed when that shift leaves something.         *)

Shr16(x) == x \div 65536

Shr64(x) == Shr16(Shr16(Shr16(Shr16(x))))

(* Variant: an accumulator of 8 bits. *)
U8Wrap(x) == x % 256

U64Wrap(x) ==
    IF Shr64(x) = 0 THEN x
    ELSE x - Shr64(x) * (65536 * 65536 * 65536 * 65536)

----------------------------------------------------------------------------
(* f64 values. The quotient of two integers is kept as a fraction in       *)
(* lowest terms, so equal quotients are equal values; 0/0 is NaN. Within   *)
(* the model's bounds both operands are far below 2^53, where `as f64` is  *)
(* exact, and distinct fractions round to distinct doubles.                *)

RECURSIVE GCD(_, _)
GCD(a, b) == IF b = 0 THEN a ELSE GCD(b, a % b)

NaN == [num |-> 0, den |-> 0]

(* Variant: the division made on the integers, before the cast. *)
F64DivTruncated(a, b) ==
    IF b = 0 THEN NaN ELSE [num |-> a \div b, den |-> 1]

F64Div(a, b) ==
    IF b = 0 THEN NaN
    ELSE [num |-> a \div GCD(a, b), den |-> b \div GCD(a, b)]

(* format!("{:.2}", x): x in hundredths, rounded to nearest, ties to even. *)
Format2(x) ==
    IF x.den = 0 THEN -1
    ELSE LET q == (100 * x.num) \div x.den
             rem == (100 * x.num) % x.den
         IN  IF 2 * rem > x.den \/ (2 * rem = x.den /\ q % 2 = 1)
             THEN q + 1 ELSE q

----------------------------------------------------------------------------
(* The image codec, image::load_from_memory followed by to_rgb8. The       *)
(* format is found from the first byte (binary PNM's P5: one grey sample   *)
(* per pixel, P6: three samples per pixel), then come the width, the       *)
(* height and the samples, row by row. A buffer that is too short for its  *)
(* header or for the samples its header announces does not decode.         *)

MagicP5 == 5
MagicP6 == 6

Channels(magic) == IF magic = MagicP6 THEN 3 ELSE 1

DecodeError == [ok |-> FALSE, color |-> "none", width |-> 0, height |-> 0,
                samples |-> <<>>]

load_from_memory(bytes) ==
    IF Len(bytes) < 3 THEN DecodeError
    ELSE IF bytes[1] \notin {MagicP5, MagicP6} THEN DecodeError
    ELSE LET need == bytes[2] * bytes[3] * Channels(bytes[1])
         IN  IF Len(bytes) < 3 + need THEN DecodeError
             ELSE [ok |-> TRUE,
                   color |-> IF bytes[1] = MagicP6 THEN "rgb8" ELSE "l8",
                   width |-> bytes[2], height |-> bytes[3],
                   samples |-> SubSeq(bytes, 4, 3 + need)]

(* to_rgb8: RGB8 is kept; a grey sample becomes three equal channels. *)
to_rgb8(img) ==
    [width |-> img.width, height |-> img.height,
     buf |-> IF img.color = "rgb8" THEN img.samples
             ELSE [i \in 1..(3 * Len(img.samples)) |-> img.samples[(i + 2) \div 3]]]

NoImage == [width |-> 0, height |-> 0, buf |-> <<>>]

(* rgb_img.pixels(): the buffer in chunks of three, in buffer order. *)
NumPixels(img) == Len(img.buf) \div 3

PixelAt(img, k) == <<img.buf[3 * k - 2], img.buf[3 * k - 1], img.buf[3 * k]>>

----------------------------------------------------------------------------
(* The body of the loop of calculate_image_intensity (lines 85-91).        *)

(* Variant: the per-pixel mean rounded to nearest. *)
IntensityRounded(pixel) == (pixel[1] + pixel[2] + pixel[3] + 1) \div 3

(* Variant: the channel sum, not divided. *)
IntensityRaw(pixel) == pixel[1] + pixel[2] + pixel[3]

Intensity(pixel) == (pixel[1] + pixel[2] + pixel[3]) \div 3

(* Variant: `=` for `+=` on total_intensity. *)
LoopBodyAssign(acc, pixel) ==
    [total |-> Intensity(pixel), count |-> U64Wrap(acc.count + 1)]

LoopBody(acc, pixel) ==
    [total |-> U64Wrap(acc.total + Intensity(pixel)),
     count |-> U64Wrap(acc.count + 1)]

----------------------------------------------------------------------------
(* Multipart bodies. A part is either a place where the framing is broken  *)
(* (next_field() fails there) or a field with a name ("" when it has none),*)
(* whose content can be read in full (bytes() succeeds) or not.            *)

Bad == [kind |-> "bad", name |-> "", readable |-> FALSE, data |-> <<>>]

Field(name, readable, bytes) ==
    [kind |-> "field", name |-> name, readable |-> readable, data |-> bytes]

Encode(magic, w, h, samples) == <<magic, w, h>> \o samples

ChanVals == {1, 255}

GreyVals == {0, 90, 255}

Dims(n) == {d \in (0..MaxDim) \X (0..MaxDim) : d[1] * d[2] = n}

RgbImages ==
    UNION {UNION {{Encode(MagicP6, d[1], d[2], s) : s \in [1..(3 * n) -> ChanVals]}
                  : d \in Dims(n)} : n \in 0..MaxPixels}

GreyImages ==
    UNION {UNION {{Encode(MagicP5, d[1], d[2], s) : s \in [1..n -> GreyVals]}
                  : d \in Dims(n)} : n \in 0..MaxPixels}

UniformImages ==
    {Encode(MagicP6, w, h, [i \in 1..(3 * w * h) |-> c[((i - 1) % 3) + 1]])
        : w \in 1..MaxDim, h \in 1..MaxDim,
          c \in (ChanVals \X ChanVals \X ChanVals) \cup {<<90, 90, 90>>, <<0, 0, 1>>}}
    \cup
    {Encode(MagicP5, w, h, [i \in 1..(w * h) |-> v])
        : w \in 1..MaxDim, h \in 1..MaxDim, v \in GreyVals}

OnePixel == Encode(MagicP6, 1, 1, <<1, 255, 255>>)

TwoGrey == Encode(MagicP5, 1, 2, <<0, 255>>)

ZeroPixels == Encode(MagicP5, 0, 1, <<>>)

Garbage == <<0, 1, 1, 90>>

Undecodable ==
    {<<>>, Garbage, <<MagicP6>>, <<MagicP6, 1>>,
     SubSeq(OnePixel, 1, Len(OnePixel) - 1), SubSeq(TwoGrey, 1, Len(TwoGrey) - 1)}

ImageData == RgbImages \cup GreyImages \cup UniformImages \cup Undecodable

Parts ==
    {Bad, Field("file", TRUE, <<>>), Field("", TRUE, <<>>),
     Field("image", FALSE, <<>>)}
    \cup {Field("image", TRUE, d) : d \in {<<>>, Garbage, OnePixel, ZeroPixels}}

ShapeBodies == UNION {[1..n -> Parts] : n \in 0..MaxParts}

Bodies == ShapeBodies \cup {<<Field("image", TRUE, d)>> : d \in ImageData}

ConcBodies ==
    {<<>>, <<Bad>>, <<Field("image", FALSE, <<>>)>>,
     <<Field("image", TRUE, Garbage)>>, <<Field("image", TRUE, ZeroPixels)>>,
     <<Field("file", TRUE, <<>>), Field("image", TRUE, TwoGrey)>>,
     <<Field("image", TRUE, OnePixel)>>}

----------------------------------------------------------------------------
(* The handler calculate_intensity and the function it calls.              *)

NoResponse == [status |-> 0, json |-> <<>>]

Failure(status) == [status |-> status, json |-> <<>>]

Success(intensity) ==
    [status |-> OK,
     json |-> <<[average_intensity |-> intensity, message |-> Format2(intensity)]>>]

Ok(value) == <<[ok |-> TRUE, value |-> value, err |-> ""]>>

Err(msg) == <<[ok |-> FALSE, value |-> NaN, err |-> msg]>>

InitWith(reqs, bodies) ==
    /\ body \in [reqs -> bodies]
    /\ pc = [r \in reqs |-> "next_field"]
    /\ idx = [r \in reqs |-> 1]
    /\ data = [r \in reqs |-> <<>>]
    /\ rgb_img = [r \in reqs |-> NoImage]
    /\ it = [r \in reqs |-> 1]
    /\ total_intensity = [r \in reqs |-> 0]
    /\ pixel_count = [r \in reqs |-> 0]
    /\ result = [r \in reqs |-> <<>>]
    /\ response = [r \in reqs |-> NoResponse]
    /\ decoded = [r \in reqs |-> <<>>]

Init == InitWith({1}, Bodies)

InitConc == InitWith(1..NReq, ConcBodies)

Reqs == DOMAIN pc

(* return from the handler *)
Return(r, resp) ==
    /\ response' = [response EXCEPT ![r] = resp]
    /\ pc' = [pc EXCEPT ![r] = "done"]

(* line 58: next_field() fails on broken framing, `?` returns 400 *)
NextFieldErr(r) ==
    /\ pc[r] = "next_field"
    /\ idx[r] <= Len(body[r])
    /\ body[r][idx[r]].kind = "bad"
    /\ Return(r, Failure(BAD_REQUEST))
    /\ UNCHANGED <<body, idx, data, rgb_img, it, total_intensity, pixel_count,
                   result, decoded>>

(* lines 58, 74: next_field() yields None, the loop ends, 400 *)
NextFieldNone(r) ==
    /\ pc[r] = "next_field"
    /\ idx[r] > Len(body[r])
    /\ Return(r, Failure(BAD_REQUEST))
    /\ UNCHANGED <<body, idx, data, rgb_img, it, total_intensity, pixel_count,
                   result, decoded>>

(* lines 58-59: a field that is not named "image" is passed over *)
NextFieldSkip(r) ==
    /\ pc[r] = "next_field"
    /\ idx[r] <= Len(body[r])
    /\ body[r][idx[r]].kind = "field"
    /\ body[r][idx[r]].name # "image"
    /\ idx' = [idx EXCEPT ![r] = @ + 1]
    /\ UNCHANGED <<pc, body, data, rgb_img, it, total_intensity, pixel_count,
                   result, response, decoded>>

(* lines 58-59: a field named "image" *)
NextFieldImage(r) ==
    /\ pc[r] = "next_field"
    /\ idx[r] <= Len(body[r])
    /\ body[r][idx[r]].kind = "field"
    /\ body[r][idx[r]].name = "image"
    /\ pc' = [pc EXCEPT ![r] = "bytes"]
    /\ UNCHANGED <<body, idx, data, rgb_img, it, total_intensity, pixel_count,
                   result, response, decoded>>

(* Variant: unwrap() for map_err(..)? on line 60. *)
BytesErrPanics(r) ==
    /\ pc[r] = "bytes"
    /\ ~body[r][idx[r]].readable
    /\ pc' = [pc EXCEPT ![r] = "panicked"]
    /\ UNCHANGED <<body, idx, data, rgb_img, it, total_intensity, pixel_count,
                   result, response, decoded>>

(* line 60: bytes() fails, `?` returns 400 *)
BytesErr(r) ==
    /\ pc[r] = "bytes"
    /\ ~body[r][idx[r]].readable
    /\ Return(r, Failure(BAD_REQUEST))
    /\ UNCHANGED <<body, idx, data, rgb_img, it, total_intensity, pixel_count,
                   result, decoded>>

(* lines 60, 62: the content is read and calculate_image_intensity called *)
BytesOk(r) ==
    /\ pc[r] = "bytes"
    /\ body[r][idx[r]].readable
    /\ data' = [data EXCEPT ![r] = body[r][idx[r]].data]
    /\ pc' = [pc EXCEPT ![r] = "calc"]
    /\ UNCHANGED <<body, idx, rgb_img, it, total_intensity, pixel_count,
                   result, response, decoded>>

(* Variant: Err(_) mapped to 400 on line 69. *)
LoadErrAsBadRequest(r) ==
    /\ pc[r] = "calc"
    /\ ~load_from_memory(data[r]).ok
    /\ decoded' = [decoded EXCEPT ![r] = Append(@, data[r])]
    /\ result' = [result EXCEPT ![r] = Err("decode")]
    /\ Return(r, Failure(BAD_REQUEST))
    /\ UNCHANGED <<body, idx, data, rgb_img, it, total_intensity, pixel_count>>

(* Variant: Err(_) on line 69 goes on to the next field. *)
LoadErrContinues(r) ==
    /\ pc[r] = "calc"
    /\ ~load_from_memory(data[r]).ok
    /\ decoded' = [decoded EXCEPT ![r] = Append(@, data[r])]
    /\ result' = [result EXCEPT ![r] = Err("decode")]
    /\ pc' = [pc EXCEPT ![r] = "next_field"]
    /\ idx' = [idx EXCEPT ![r] = @ + 1]
    /\ UNCHANGED <<body, data, rgb_img, it, total_intensity, pixel_count,
                   response>>

(* lines 78, 69: the bytes do not decode, `?` returns the error, 422 *)
LoadErr(r) ==
    /\ pc[r] = "calc"
    /\ ~load_from_memory(data[r]).ok
    /\ decoded' = [decoded EXCEPT ![r] = Append(@, data[r])]
    /\ result' = [result EXCEPT ![r] = Err("decode")]
    /\ Return(r, Failure(UNPROCESSABLE_ENTITY))
    /\ UNCHANGED <<body, idx, data, rgb_img, it, total_intensity, pixel_count>>

(* lines 78-84: the bytes decode; the accumulators start at zero *)
LoadOk(r) ==
    /\ pc[r] = "calc"
    /\ load_from_memory(data[r]).ok
    /\ decoded' = [decoded EXCEPT ![r] = Append(@, data[r])]
    /\ rgb_img' = [rgb_img EXCEPT ![r] = to_rgb8(load_from_memory(data[r]))]
    /\ total_intensity' = [total_intensity EXCEPT ![r] = 0]
    /\ pixel_count' = [pixel_count EXCEPT ![r] = 0]
    /\ it' = [it EXCEPT ![r] = 1]
    /\ pc' = [pc EXCEPT ![r] = "loop"]
    /\ UNCHANGED <<body, idx, data, result, response>>

Acc(r) == [total |-> total_intensity[r], count |-> pixel_count[r]]

(* Variant: total_intensity kept in one place for all requests. *)
LoopStepShared(r) ==
    /\ pc[r] = "loop"
    /\ it[r] <= NumPixels(rgb_img[r])
    /\ LET acc == LoopBody(Acc(1), PixelAt(rgb_img[r], it[r]))
       IN  /\ total_intensity' = [total_intensity EXCEPT ![1] = acc.total]
           /\ pixel_count' = [pixel_count EXCEPT ![r] = pixel_count[r] + 1]
    /\ it' = [it EXCEPT ![r] = @ + 1]
    /\ UNCHANGED <<pc, body, idx, data, rgb_img, result, response, decoded>>

(* lines 84-92: one iteration of the loop *)
LoopStep(r) ==
    /\ pc[r] = "loop"
    /\ it[r] <= NumPixels(rgb_img[r])
    /\ LET acc == LoopBody(Acc(r), PixelAt(rgb_img[r], it[r]))
       IN  /\ total_intensity' = [total_intensity EXCEPT ![r] = acc.total]
           /\ pixel_count' = [pixel_count EXCEPT ![r] = acc.count]
    /\ it' = [it EXCEPT ![r] = @ + 1]
    /\ UNCHANGED <<pc, body, idx, data, rgb_img, result, response, decoded>>

(* Variant: the test of line 94 left out. *)
IsEmptyNever(r) == FALSE

(* line 94 *)
IsEmpty(r) == pixel_count[r] = 0

(* lines 94-96, 69: no pixel was counted, Err, 422 *)
EmptyErr(r) ==
    /\ pc[r] = "loop"
    /\ it[r] > NumPixels(rgb_img[r])
    /\ IsEmpty(r)
    /\ result' = [result EXCEPT ![r] = Err("No pixels found in image")]
    /\ Return(r, Failure(UNPROCESSABLE_ENTITY))
    /\ UNCHANGED <<body, idx, data, rgb_img, it, total_intensity, pixel_count,
                   decoded>>

(* lines 98, 63-67: the final division, Ok, 200 *)
Divide(r) ==
    /\ pc[r] = "loop"
    /\ it[r] > NumPixels(rgb_img[r])
    /\ ~IsEmpty(r)
    /\ LET intensity == F64Div(total_intensity[r], pixel_count[r])
       IN  /\ result' = [result EXCEPT ![r] = Ok(intensity)]
           /\ Return(r, Success(intensity))
    /\ UNCHANGED <<body, idx, data, rgb_img, it, total_intensity, pixel_count,
                   decoded>>

Next ==
    \/ \E r \in Reqs : NextFieldErr(r)
    \/ \E r \in Reqs : NextFieldNone(r)
    \/ \E r \in Reqs : NextFieldSkip(r)
    \/ \E r \in Reqs : NextFieldImage(r)
    \/ \E r \in Reqs : BytesErr(r)
    \/ \E r \in Reqs : BytesOk(r)
    \/ \E r \in Reqs : LoadErr(r)
    \/ \E r \in Reqs : LoadOk(r)
    \/ \E r \in Reqs : LoopStep(r)
    \/ \E r \in Reqs : EmptyErr(r)
    \/ \E r \in Reqs : Divide(r)

Spec == Init /\ [][Next]_vars

SpecConc == InitConc /\ [][Next]_vars

FairSpec == Init /\ [][Next]_vars /\ WF_vars(Next)

----------------------------------------------------------------------------
(* What the properties below are stated with.                              *)

Done(r) == pc[r] = "done"

Returned(r) == result[r] # <<>>

Value(r) == result[r][1].value

(* the sum over the first k pixels of floor((R+G+B)/3), from the buffer *)
RECURSIVE SumFloor(_, _)
SumFloor(img, k) ==
    IF k = 0 THEN 0
    ELSE SumFloor(img, k - 1)
         + ((img.buf[3 * k - 2] + img.buf[3 * k - 1] + img.buf[3 * k]) \div 3)

(* the sum of all channel values of the buffer *)
RECURSIVE SumChannels(_, _)
SumChannels(img, i) == IF i = 0 THEN 0 ELSE SumChannels(img, i - 1) + img.buf[i]

(* the request decoded its image and the function has returned *)
Computed(r) ==
    /\ Returned(r)
    /\ Len(decoded[r]) = 1
    /\ load_from_memory(decoded[r][1]).ok

Uniform(img) == \A i \in 4..Len(img.buf) : img.buf[i] = img.buf[i - 3]

----------------------------------------------------------------------------
(* C1: for a grid of at least one pixel calculate_image_intensity returns  *)
(* Ok with exactly (sum over the pixels of floor((R+G+B)/3)) divided by    *)
(* the number of pixels, the division by three being taken per pixel and   *)
(* the final division not truncated; (0,0,0),(255,255,255) gives 127.5.    *)
C1_ExactAverage ==
    \A r \in Reqs :
        (Computed(r) /\ NumPixels(rgb_img[r]) >= 1) =>
            /\ result[r][1].ok
            /\ Value(r).den > 0
            /\ Value(r).num * NumPixels(rgb_img[r])
                 = SumFloor(rgb_img[r], NumPixels(rgb_img[r])) * Value(r).den
            /\ (rgb_img[r].buf = <<0, 0, 0, 255, 255, 255>>
                    => 2 * Value(r).num = 255 * Value(r).den)

(* a result over several pixels whose channel sums are not multiples of 3 *)
(* and whose average is not an integer                                    *)
C1_Witness ==
    \E r \in Reqs :
        /\ Computed(r) /\ result[r][1].ok
        /\ NumPixels(rgb_img[r]) >= 2
        /\ 3 * SumFloor(rgb_img[r], NumPixels(rgb_img[r]))
             # SumChannels(rgb_img[r], Len(rgb_img[r].buf))
        /\ Value(r).den > 1

----------------------------------------------------------------------------
(* C3: when the decoded grid has no pixel (its width or its height is 0)   *)
(* calculate_image_intensity returns the empty-image failure and the       *)
(* handler answers 422 without a number; the final division is never made  *)
(* with pixel_count = 0, so no returned value is NaN.                      *)
C3_EmptyImageFails ==
    \A r \in Reqs :
        /\ Returned(r) /\ result[r][1].ok => Value(r).den # 0
        /\ (Computed(r) /\ (rgb_img[r].width = 0 \/ rgb_img[r].height = 0)) =>
              /\ NumPixels(rgb_img[r]) = 0
              /\ result[r] = Err("No pixels found in image")
              /\ response[r] = Failure(UNPROCESSABLE_ENTITY)

C3_Witness ==
    \E r \in Reqs :
        /\ Computed(r) /\ Done(r)
        /\ rgb_img[r].width = 0 /\ rgb_img[r].height > 0
        /\ pixel_count[r] = 0

----------------------------------------------------------------------------
(* C4: every average returned for a grid of at least one pixel lies in     *)
(* the closed range [0, 255].                                              *)
C4_InRange ==
    \A r \in Reqs :
        (Returned(r) /\ result[r][1].ok) =>
            /\ Value(r).den > 0
            /\ 0 <= Value(r).num
            /\ Value(r).num <= MaxChannel * Value(r).den

(* both ends of the range are returned: an all-white image here *)
C4_Witness ==
    \E r \in Reqs :
        /\ Returned(r) /\ result[r][1].ok
        /\ NumPixels(rgb_img[r]) >= 2
        /\ Value(r).num = MaxChannel * Value(r).den

----------------------------------------------------------------------------
(* C5: for a uniform image, every pixel (R,G,B), of any width and height   *)
(* with at least one pixel, the average is exactly floor((R+G+B)/3); an    *)
(* image of (90,90,90) pixels gives 90.0 whatever its size.                *)
C5_Uniform ==
    \A r \in Reqs :
        (Computed(r) /\ NumPixels(rgb_img[r]) >= 1 /\ Uniform(rgb_img[r])) =>
            /\ result[r][1].ok
            /\ Value(r) = [num |-> SumFloor(rgb_img[r], 1), den |-> 1]
            /\ (SubSeq(rgb_img[r].buf, 1, 3) = <<90, 90, 90>>
                    => Value(r) = [num |-> 90, den |-> 1])

(* a uniform image of the largest size whose channel sum is no multiple of 3 *)
C5_Witness ==
    \E r \in Reqs :
        /\ Computed(r) /\ Uniform(rgb_img[r])
        /\ rgb_img[r].width = MaxDim /\ rgb_img[r].height = MaxDim
        /\ (rgb_img[r].buf[1] + rgb_img[r].buf[2] + rgb_img[r].buf[3]) % 3 = 2
        /\ Value(r).den = 1

----------------------------------------------------------------------------
(* The status a body gets.                                                 *)

IsImagePart(part) == part.kind = "field" /\ part.name = "image"

HasImagePart(b) == \E i \in 1..Len(b) : IsImagePart(b[i])

(* the framing is broken somewhere, or some content cannot be read in full *)
Unparseable(b) ==
    \E i \in 1..Len(b) : b[i].kind = "bad" \/ ~b[i].readable

(* these bytes do not decode, or decode to no pixel *)
NoPixels(bytes) ==
    \/ ~load_from_memory(bytes).ok
    \/ NumPixels(to_rgb8(load_from_memory(bytes))) = 0

(* the position of the first part named image, 0 when there is none *)
FirstImage(b) ==
    IF HasImagePart(b)
    THEN CHOOSE i \in 1..Len(b) :
            IsImagePart(b[i]) /\ \A j \in 1..(i - 1) : ~IsImagePart(b[j])
    ELSE 0

(* the response carries the average of the image these bytes encode *)
CarriesAverage(resp, bytes) ==
    LET img == to_rgb8(load_from_memory(bytes))
    IN  /\ Len(resp.json) = 1
        /\ resp.json[1].average_intensity.den > 0
        /\ resp.json[1].average_intensity.num * NumPixels(img)
             = SumFloor(img, NumPixels(img)) * resp.json[1].average_intensity.den

(* C2 as amended: 400 when the framing is broken before the first part     *)
(* named image, when that part's content cannot be read in full, or when   *)
(* the body has no part named image; otherwise the first part named image  *)
(* alone decides: 422 when its bytes do not decode or decode to no pixel   *)
(* (empty content included), 200 with the average otherwise. What follows  *)
(* the first part named image is never read and changes nothing.           *)
C2_StatusByFirstImage ==
    \A r \in Reqs :
        Done(r) =>
            LET b == body[r]
                f == FirstImage(b)
            IN  IF \/ f = 0
                   \/ \E i \in 1..f : b[i].kind = "bad"
                   \/ ~b[f].readable
                THEN response[r] = Failure(BAD_REQUEST)
                ELSE IF NoPixels(b[f].data)
                THEN response[r] = Failure(UNPROCESSABLE_ENTITY)
                ELSE /\ response[r].status = OK
                     /\ CarriesAverage(response[r], b[f].data)

(* an image part with empty content answered 422, and a second image part  *)
(* after it left unread                                                    *)
C2_Witness ==
    \E r \in Reqs :
        /\ Done(r)
        /\ Len(body[r]) = 2
        /\ body[r][1] = Field("image", TRUE, <<>>)
        /\ body[r][2] = Field("image", TRUE, OnePixel)
        /\ response[r] = Failure(UNPROCESSABLE_ENTITY)

(* C2 as stated: 400 when the body is unparseable or holds no part named   *)
(* image; 422 when a part named image is present whose bytes do not decode *)
(* or decode to no pixel; 200 with the computed average otherwise.         *)
C2_AsStated ==
    \A r \in Reqs :
        Done(r) =>
            LET b == body[r]
            IN  IF Unparseable(b) \/ ~HasImagePart(b)
                THEN response[r].status = BAD_REQUEST
                ELSE IF \E i \in 1..Len(b) : IsImagePart(b[i]) /\ NoPixels(b[i].data)
                THEN response[r].status = UNPROCESSABLE_ENTITY
                ELSE response[r].status = OK

----------------------------------------------------------------------------
(* C7: the decoder is called at most once per request, and only on the     *)
(* bytes of a part named image of that request's body; a request whose     *)
(* body has no part named image ends with 400 and the decoder not called.  *)
C7_DecoderAtMostOnce ==
    \A r \in Reqs :
        /\ Len(decoded[r]) <= 1
        /\ \A k \in 1..Len(decoded[r]) :
              \E i \in 1..Len(body[r]) :
                  IsImagePart(body[r][i]) /\ body[r][i].data = decoded[r][k]
        /\ ~HasImagePart(body[r]) => decoded[r] = <<>>
        /\ (Done(r) /\ ~HasImagePart(body[r])) =>
              response[r] = Failure(BAD_REQUEST)

(* a body with two parts named image, answered after a single decoder call *)
C7_Witness ==
    \E r \in Reqs :
        /\ Done(r)
        /\ Len(body[r]) = 2
        /\ IsImagePart(body[r][1]) /\ IsImagePart(body[r][2])
        /\ body[r][2].readable
        /\ Len(decoded[r]) = 1

----------------------------------------------------------------------------
(* C6: a request whose body is fully delivered ends in exactly one         *)
(* terminal outcome: 200 with an average computed over every pixel, or 400 *)
(* or 422 without one. Until then the handler can always take a step (no   *)
(* input leaves it without a response), it never goes back over a part or  *)
(* decodes twice, its response once given never changes, and it ends.      *)
ValidOutcome(r) ==
    \/ /\ response[r].status = OK
       /\ Len(response[r].json) = 1
       /\ response[r].json[1].average_intensity.den > 0
       /\ result[r] = Ok(response[r].json[1].average_intensity)
       /\ it[r] > NumPixels(rgb_img[r])
       /\ pixel_count[r] = NumPixels(rgb_img[r])
    \/ /\ response[r].status \in {BAD_REQUEST, UNPROCESSABLE_ENTITY}
       /\ response[r].json = <<>>

C6_OneTerminalOutcome ==
    /\ [](\A r \in Reqs : IF Done(r) THEN ValidOutcome(r)
                          ELSE response[r] = NoResponse /\ ENABLED Next)
    /\ [][\A r \in Reqs :
            /\ idx'[r] >= idx[r]
            /\ Len(decoded'[r]) <= 1
            /\ Done(r) => (Done(r)' /\ response'[r] = response[r])]_vars
    /\ <>(\A r \in Reqs : Done(r))

(* each of the three outcomes is the end of some request: here the end of  *)
(* one whose image part could not be read in full                          *)
C6_Witness ==
    \E r \in Reqs :
        /\ Done(r)
        /\ HasImagePart(body[r])
        /\ ~body[r][FirstImage(body[r])].readable
        /\ response[r] = Failure(BAD_REQUEST)

----------------------------------------------------------------------------
(* C8: concurrent requests do not affect each other: in every interleaving *)
(* two requests with the same body end with the same response and the same *)
(* result, whatever the other requests carry and whenever they run.        *)
C8_Independent ==
    \A r1 \in Reqs, r2 \in Reqs :
        (Done(r1) /\ Done(r2) /\ body[r1] = body[r2]) =>
            /\ response[r1] = response[r2]
            /\ result[r1] = result[r2]

(* two requests with the same image answered 127.5 beside a failed third *)
C8_Witness ==
    \E r1 \in Reqs, r2 \in Reqs, r3 \in Reqs :
        /\ r1 # r2
        /\ Done(r1) /\ Done(r2) /\ Done(r3)
        /\ body[r1] = body[r2] /\ body[r3] # body[r1]
        /\ response[r1] = Success([num |-> 255, den |-> 2])
        /\ response[r3].status = UNPROCESSABLE_ENTITY

----------------------------------------------------------------------------
(* C9: the accumulators do not depend on the order in which the pixels are *)
(* visited: once the loop has ended, running its body over the pixels in   *)
(* any other order gives the same total_intensity and pixel_count, hence   *)
(* the same average. Every permutation is tried up to MaxPixels pixels,    *)
(* every exchange of two pixels beyond.                                    *)
RECURSIVE FoldInOrder(_, _, _)
FoldInOrder(img, order, k) ==
    IF k = 0 THEN [total |-> 0, count |-> 0]
    ELSE LoopBody(FoldInOrder(img, order, k - 1), PixelAt(img, order[k]))

Orders(n) ==
    IF n <= MaxPixels
    THEN {p \in [1..n -> 1..n] : \A i \in 1..n, j \in 1..n : p[i] = p[j] => i = j}
    ELSE {[i \in 1..n |-> IF i = a THEN b ELSE IF i = b THEN a ELSE i]
            : a \in 1..n, b \in 1..n}

LoopEnded(r) ==
    /\ Len(decoded[r]) = 1
    /\ load_from_memory(decoded[r][1]).ok
    /\ pc[r] \in {"loop", "done"}
    /\ it[r] > NumPixels(rgb_img[r])

C9_OrderIndependent ==
    \A r \in Reqs :
        LoopEnded(r) =>
            \A order \in Orders(NumPixels(rgb_img[r])) :
                LET acc == FoldInOrder(rgb_img[r], order, NumPixels(rgb_img[r]))
                IN  /\ acc = Acc(r)
                    /\ (Returned(r) /\ result[r][1].ok)
                          => Value(r) = F64Div(acc.total, acc.count)

(* the loop has ended over pixels of three different intensities *)
C9_Witness ==
    \E r \in Reqs :
        /\ LoopEnded(r) /\ Returned(r)
        /\ NumPixels(rgb_img[r]) = 3
        /\ Cardinality({Intensity(PixelAt(rgb_img[r], k)) : k \in 1..3}) = 3

----------------------------------------------------------------------------
(* Natural numbers beyond TLC's integers: base-256 digits, lowest first.   *)

RECURSIVE Carry(_, _)
Carry(digits, c) ==
    IF digits = <<>>
    THEN IF c = 0 THEN <<>> ELSE <<c % 256>> \o Carry(<<>>, c \div 256)
    ELSE <<(digits[1] + c) % 256>> \o Carry(Tail(digits), (digits[1] + c) \div 256)

RECURSIVE Column(_, _, _, _)
Column(a, b, k, j) ==
    IF j = 0 THEN 0
    ELSE Column(a, b, k, j - 1)
         + (IF k + 1 - j \in 1..Len(b) THEN a[j] * b[k + 1 - j] ELSE 0)

BigTimes(a, b) ==
    Carry([k \in 1..(Len(a) + Len(b) - 1) |-> Column(a, b, k, Len(a))], 0)

FitsU64(a) == \A i \in 9..Len(a) : a[i] = 0

U32Max == <<255, 255, 255, 255>>

(* floor((2^64 - 1) / 255) = 72340172838076673 = 0x0101010101010101 *)
PixelCap == <<1, 1, 1, 1, 1, 1, 1, 1>>

WhiteIntensity == <<Intensity(<<MaxChannel, MaxChannel, MaxChannel>>)>>

(* The loop invariant of calculate_image_intensity. *)
LoopInvariant ==
    \A r \in Reqs :
        (Len(decoded[r]) = 1 /\ load_from_memory(decoded[r][1]).ok
            /\ pc[r] \in {"loop", "done"}) =>
            LET k == it[r] - 1
            IN  /\ k <= NumPixels(rgb_img[r])
                /\ NumPixels(rgb_img[r]) = rgb_img[r].width * rgb_img[r].height
                /\ pixel_count[r] = k
                /\ total_intensity[r] = SumFloor(rgb_img[r], k)
                /\ \A i \in 1..k : Intensity(PixelAt(rgb_img[r], i)) <= MaxChannel
                /\ total_intensity[r] <= MaxChannel * pixel_count[r]
                /\ Shr64(total_intensity[r]) = 0
                /\ Shr64(pixel_count[r]) = 0

====
